---- MODULE Spec2Model ----
(***************************************************************************)
(* Model of the prompt generator: the PreferenceAdapter store              *)
(* (app/preferences.py) and the generation core with its retry loop        *)
(* (app/llm_agent.py).                                                     *)
(*                                                                         *)
(* Conventions.  Floats are integers in hundredths: 0.2 is 20, 0.75 is 75. *)
(* A text is a sequence of atoms: " " is white space, "-" is a dash, any   *)
(* other string is a run of characters free of both.  A JSON object coming *)
(* back from the generator is a record with the set of keys it carries     *)
(* (keys) and the set of keys whose value is null (nulls).                 *)
(*                                                                         *)
(* Spec is the service: generation requests, status reads, update and      *)
(* clear, one handler body at a time.  SpecStore is the PreferenceAdapter  *)
(* alone under any sequence of calls of its methods.  SpecCore is the      *)
(* generation core for one prompt with every answer of the generator       *)
(* logged.  SpecSelect is the two selection functions called directly.     *)
(* SpecFetch is one record fetch of app/airtable_client.py at a time.      *)
(***************************************************************************)
EXTENDS Integers, Sequences, FiniteSets, TLC

\* ------------------------------------------------------------------ bounds
MaxPrompts == 2
MaxResponseLen == 2
MaxDecisions == 1
MaxContextChoices == 2
MaxStoreDecisions == 1
MaxTop == 2
MaxIds == 3
MaxRecords == 2         \* records in one page of the tabular source

\* ------------------------------------------------------- program constants
DefaultExplorationRate == 20
DefaultScore == 50
WeightFloor == 10
TopsThreshold == 75
LlmAttempts == 2

\* Mutant of LlmCallRetries: one more round trip per attempt.
ThreeCallRetries == 2 + 1

LlmCallRetries == 2
ExploreMaxAge == 4
ExploreMaxUsage == 10

REQUIRED_PROMPT_KEYS == {"promptText", "designerId", "garmentId", "promptStructureId", "renderer"}

\* ---------------------------------------------------------------- helpers
Max2(a, b) == IF a >= b THEN a ELSE b

Min2(a, b) == IF a <= b THEN a ELSE b

Abs(a) == IF a < 0 THEN 0 - a ELSE a

SeqToSet(s) == {s[i] : i \in 1..Len(s)}

RECURSIVE SumSeq(_)
SumSeq(s) == IF s = <<>> THEN 0 ELSE Head(s) + SumSeq(Tail(s))

RECURSIVE Concat(_)
Concat(ss) == IF ss = <<>> THEN <<>> ELSE Head(ss) \o Concat(Tail(ss))

\* Python's sorted(pairs, key=lambda x: x[1], reverse=True): stable, so
\* equal scores keep their input order.
RECURSIVE InsertDesc(_, _)
InsertDesc(p, s) ==
    IF s = <<>> THEN <<p>>
    ELSE IF Head(s)[2] >= p[2] THEN <<Head(s)>> \o InsertDesc(p, Tail(s))
    ELSE <<p>> \o s

\* Mutant of SortDesc: the pairs stay in their input order.
KeepOrder(s) == s

RECURSIVE SortDesc(_)
SortDesc(s) ==
    IF s = <<>> THEN <<>>
    ELSE InsertDesc(s[Len(s)], SortDesc(SubSeq(s, 1, Len(s) - 1)))

\* A dict is a sequence of <<key, value>> pairs with distinct keys, in
\* insertion order.
DictKeys(d) == {d[i][1] : i \in 1..Len(d)}

DictGet(d, k, default) ==
    IF k \in DictKeys(d) THEN d[CHOOSE i \in 1..Len(d) : d[i][1] = k][2]
    ELSE default

\* ------------------------------------------------------------- record pools
\* The records the tabular source can supply.
Renderers == {"Recraft", "ImageFX"}

AllDesigners == { [id |-> "recD1", name |-> <<"Prada">>] }

AllColors == { [id |-> "recC1", name |-> <<"Cream">>] }

AllTops ==
    { [id |-> "recT1", name |-> <<"Jacket">>,
       primary_design_elements |-> <<"Sleeves", "Collar">>,
       technical_features |-> <<"Wicking">>,
       premium_constructions |-> <<>>] }

AllOthers ==
    { [id |-> "recO1", name |-> <<"Pant">>,
       primary_design_elements |-> <<>>,
       technical_features |-> <<"Quickdry", "Stretch", "Cooling">>,
       premium_constructions |-> <<"Seams">>] }

\* recA is new and little used; recB is a proven performer; recC is stale
\* with a negative heuristic score, and its skeleton ends in dashes that no
\* space precedes.
AllStructures ==
    << [id |-> "recA", renderer |-> "ImageFX",
        skeleton |-> <<" ", "${designer}", " ", "${color}", " ", "-", "-", "-">>,
        outlier_count |-> 1, usage_count |-> 1, avg_rating |-> 4,
        z_score |-> 1, age_weeks |-> 1],
       [id |-> "recB", renderer |-> "Recraft",
        skeleton |-> <<"${preferenceAdjective}", " ", "${garmentName}", " ",
                       "${color.toLowerCase()}", " ", "${tcs}", " ",
                       "${technicalConstructions}", "${nosuch}", " ">>,
        outlier_count |-> 5, usage_count |-> 120, avg_rating |-> 4,
        z_score |-> 1, age_weeks |-> 2],
       [id |-> "recC", renderer |-> "Recraft",
        skeleton |-> <<"${pde1}", "-", "-", "-">>,
        outlier_count |-> 0, usage_count |-> 30, avg_rating |-> 1,
        z_score |-> 0 - 2, age_weeks |-> 12] >>

StructureIds == {AllStructures[i].id : i \in 1..Len(AllStructures)}

\* The lists of structures a request can carry: none, one structure of one
\* renderer, or all of them.
StructureLists == { <<>>, SubSeq(AllStructures, 1, 1), AllStructures }

\* ------------------------------------------------------------------- state
VARIABLES
    \* PreferenceAdapter fields
    preferences,                \* dict attribute -> score, as pairs
    exploration_rate,
    structure_scores,           \* dict structure id -> score, as pairs
    structure_prompt_insights,  \* dict structure id -> insight, as pairs
    last_updated,               \* "None" or "ts"
    exploration_count,
    exploitation_count,
    \* one call of generate_prompts_with_llm
    pc,                 \* "idle", "llm" (inside _call_llm), "done", or
                        \* "status" and "status_done" (inside GET /preferences)
    req,                \* the arguments of the call
    explore_mode,
    contexts_remaining,
    prompts_accum,
    attempt,            \* index of the retry-loop attempt, from 0
    primary_structure_id,
    call_attempt,       \* index of the round trip inside _call_llm, from 0
    result,             \* what the caller receives
    \* observation of the call, not read by the program
    payloads,           \* attempt_payload of every attempt, in order
    attempt_log,        \* per finished attempt: the error that ended it and
                        \* the items accepted so far
    extra_items,        \* items of the response that completed the result
                        \* which the loop never looked at
    skipped_items,      \* items of that response which the loop skipped
    llm_calls,          \* round trips to the generator client
    built_contexts,     \* every sampling context build_contexts produced
    explore_calls,      \* calls of should_explore made by this request
    store_seen,         \* the store contents this request has read so far
    \* a direct call of a PreferenceAdapter method or of a selection function
    returned,           \* the function, its arguments and what it returned
    \* observation of the generator, kept by SpecCore only
    received,           \* the content of every answer of the generator
    \* one call of airtable_client._fetch_records
    fetch               \* its position, its locals and what it did

storeVars == <<preferences, exploration_rate, structure_scores,
               structure_prompt_insights, last_updated,
               exploration_count, exploitation_count>>

callVars == <<pc, req, explore_mode, contexts_remaining, prompts_accum,
              attempt, primary_structure_id, call_attempt, result>>

obsVars == <<payloads, attempt_log, llm_calls, built_contexts, explore_calls,
            extra_items, skipped_items, store_seen>>

auxVars == <<received, fetch>>

vars == <<preferences, exploration_rate, structure_scores,
          structure_prompt_insights, last_updated,
          exploration_count, exploitation_count,
          pc, req, explore_mode, contexts_remaining, prompts_accum,
          attempt, primary_structure_id, call_attempt, result,
          payloads, attempt_log, extra_items, skipped_items, llm_calls,
          built_contexts, explore_calls, store_seen, returned,
          received, fetch>>

\* ------------------------------------------------------- PreferenceAdapter
has_preferences == Len(preferences) > 0

has_structure_scores == Len(structure_scores) > 0

has_structure_insights == Len(structure_prompt_insights) > 0

\* Mutant of Clamp: only the lower end is clamped.
ClampBelow(rate) == Max2(0, rate)

\* line 55
Clamp(rate) == Max2(0, Min2(100, rate))

\* What a reader of the store can see of the optimizer's feedback.
StoreSnapshot ==
    <<preferences, exploration_rate, structure_scores, structure_prompt_insights>>

\* Mutant of exploring: the draw is compared with <=.
exploring_inclusive(u) == u <= exploration_rate

\* should_explore, line 243: the draw u of rng.random() against the rate
exploring(u) == u < exploration_rate

\* Mutant of Counted: the decision is counted twice.
CountedTwice(count, hit) == IF hit THEN count + 2 ELSE count

\* should_explore, lines 245-248: the counter of the decision taken grows
Counted(count, hit) == IF hit THEN count + 1 ELSE count

\* list(d.items())[:n] for any integer n
PyPrefix(s, n) ==
    IF n >= 0 THEN SubSeq(s, 1, Min2(n, Len(s)))
    ELSE SubSeq(s, 1, Max2(0, Len(s) + n))

get_top_preferences(n) == PyPrefix(preferences, n)

get_top_structures(n) == PyPrefix(structure_scores, n)

\* Mutant of rank_structures: the pairs stay in the order of the ids.
rank_structures_unsorted(structure_ids) ==
    [i \in 1..Len(structure_ids) |->
        <<structure_ids[i], DictGet(structure_scores, structure_ids[i], DefaultScore)>>]

\* rank_structures: one (id, score) pair per id, unseen ids at 0.5, sorted
\* by score, highest first.
rank_structures(structure_ids) ==
    SortDesc([i \in 1..Len(structure_ids) |->
                <<structure_ids[i], DictGet(structure_scores, structure_ids[i], DefaultScore)>>])

\* The part of adjective_map the modelled attributes reach.
adjective_map ==
    << <<"oversized", "oversized">>, <<"tailored", "tailored">>,
       <<"relaxed_fit", "relaxed">>, <<"slim_fit", "slim">>,
       <<"boxy", "boxy">>, <<"earth_tones", "earth-toned">>,
       <<"muted", "muted">> >>

\* get_weighted_adjectives: (adjective, weight) for the mapped attributes
\* scored above 0.4, highest first.
get_weighted_adjectives ==
    IF ~has_preferences THEN <<>>
    ELSE LET kept == SelectSeq(preferences,
                        LAMBDA p : p[1] \in DictKeys(adjective_map) /\ p[2] > 40)
         IN SortDesc([i \in 1..Len(kept) |->
                        <<DictGet(adjective_map, kept[i][1], ""), kept[i][2]>>])

\* get_style_guidance formats every success_rate of the first three
\* top_prompts of the structure's insight as a percentage; a rate that is
\* not a number makes the formatting raise.
StyleGuidanceRaises(structure_id) ==
    /\ has_preferences
    /\ structure_id \in DictKeys(structure_prompt_insights)
    /\ LET top == DictGet(structure_prompt_insights, structure_id, <<>>).top_prompts
       IN \E i \in 1..Min2(3, Len(top)) : ~top[i].rate_is_number

\* _build_system_prompt: the exploration text needs no guidance.
BuildSystemPromptRaises(structure_id, explore) ==
    ~explore /\ StyleGuidanceRaises(structure_id)

\* ---------------------------------------------------------- TemplateFiller
RECURSIVE Join(_)
Join(elems) ==
    IF elems = <<>> THEN <<>>
    ELSE IF Len(elems) = 1 THEN <<elems[1]>>
    ELSE <<elems[1], ",", " ">> \o Join(Tail(elems))

FirstTwo(elems) == SubSeq(elems, 1, Min2(2, Len(elems)))

\* _build_variable_map
build_variable_map(designer, color, garment) ==
    LET design_elements == garment.primary_design_elements
        technical_features == garment.technical_features
        premium_constructions == garment.premium_constructions
    IN [designer |-> designer.name,
        color |-> color.name,
        garmentName |-> garment.name,
        pde1 |-> IF design_elements # <<>> THEN <<design_elements[1]>> ELSE <<>>,
        designElements |-> Join(design_elements),
        pcs |-> Join(premium_constructions),
        tcs |-> Join(technical_features),
        premiumConstruction |-> Join(premium_constructions),
        technicalConstruction |-> Join(technical_features),
        premiumConstructions |-> Join(FirstTwo(premium_constructions)),
        technicalConstructions |-> Join(FirstTwo(technical_features))]

\* The ${name} placeholders the modelled skeletons use, with the name each
\* one holds between its braces.
PlaceholderKeys ==
    << <<"${designer}", "designer">>, <<"${color}", "color">>,
       <<"${color.toLowerCase()}", "color.toLowerCase()">>,
       <<"${garmentName}", "garmentName">>, <<"${pde1}", "pde1">>,
       <<"${tcs}", "tcs">>,
       <<"${technicalConstructions}", "technicalConstructions">>,
       <<"${preferenceAdjective}", "preferenceAdjective">>,
       <<"${nosuch}", "nosuch">> >>

\* str.lower on the atoms that have upper-case letters
LowerAtom(a) ==
    CASE a = "Cream" -> "cream"
      [] a = "Prada" -> "prada"
      [] OTHER -> a

Lower(text) == [i \in 1..Len(text) |-> LowerAtom(text[i])]

VarGet(variables, key) ==
    IF key \in DOMAIN variables THEN variables[key] ELSE <<>>

\* replacer of _fill_skeleton, on one atom of the skeleton
Replace(atom, variables) ==
    IF atom \notin DictKeys(PlaceholderKeys) THEN <<atom>>
    ELSE LET key == DictGet(PlaceholderKeys, atom, "")
         IN IF key = "color.toLowerCase()" THEN Lower(VarGet(variables, "color"))
            ELSE VarGet(variables, key)

fill_skeleton(skeleton, variables) ==
    Concat([i \in 1..Len(skeleton) |-> Replace(skeleton[i], variables)])

RECURSIVE LStrip(_)
LStrip(text) ==
    IF text # <<>> /\ Head(text) = " " THEN LStrip(Tail(text)) ELSE text

RECURSIVE RStrip(_)
RStrip(text) ==
    IF text # <<>> /\ text[Len(text)] = " "
    THEN RStrip(SubSeq(text, 1, Len(text) - 1)) ELSE text

Strip(text) == RStrip(LStrip(text))

EndsWith(text, suffix) ==
    /\ Len(text) >= Len(suffix)
    /\ SubSeq(text, Len(text) - Len(suffix) + 1, Len(text)) = suffix

Dashes == <<"-", "-", "-">>

SuffixMarker == <<" ", "-", "-", "-">>

\* lines 363-365 of _generate_locally
FinishText(skeleton, variables) ==
    LET text == Strip(fill_skeleton(skeleton, variables))
    IN IF ~EndsWith(text, Dashes) THEN text \o SuffixMarker ELSE text

\* ---------------------------------------------------------- SelectionEngine
\* Values rng.random() can return, in hundredths, on both sides of every
\* threshold the program compares a draw with.
Draws == {0, 19, 20, 74, 75, 99}

\* Mutant of select_garment_pool: a draw equal to the threshold still
\* takes a top.
select_garment_pool_inclusive(tops, others, u) ==
    IF tops # {} /\ (others = {} \/ u <= TopsThreshold) THEN tops
    ELSE IF others # {} THEN others ELSE tops

\* _select_garment: the pool rng.choice draws from when rng.random() gives u
\* (the draw is only made when both pools have members).  Called with at
\* least one pool non-empty.
select_garment_pool(tops, others, u) ==
    IF tops # {} /\ (others = {} \/ u < TopsThreshold) THEN tops
    ELSE IF others # {} THEN others ELSE tops

select_garment(tops, others) ==
    UNION {select_garment_pool(tops, others, u) : u \in Draws}

\* _select_garment as a whole: what one call can give when rng.random()
\* would give u
select_garment_outcomes(tops, others, u) ==
    IF tops = {} /\ others = {}
    THEN {[error |-> "No garments available", garment |-> [id |-> ""]]}
    ELSE {[error |-> "", garment |-> g] : g \in select_garment_pool(tops, others, u)}

\* _fallback_structure_score, in hundredths
fallback_structure_score(s) ==
    200 * s.outlier_count + 10 * s.usage_count + 200 * s.avg_rating
    + 300 * s.z_score - 20 * Max2(0, s.age_weeks - 4)

SeqMin(s) == CHOOSE m \in SeqToSet(s) : \A x \in SeqToSet(s) : m <= x

\* rng.choices(population, weights, k=1)[0]: any member whose weight is
\* positive
Choices(population, weights) ==
    {population[i] : i \in {j \in 1..Len(population) : weights[j] > 0}}

StructById(structures, sid) ==
    structures[CHOOSE i \in 1..Len(structures) : structures[i].id = sid]

\* Mutant of ScoreWeights: the stored score is the weight.
ScoreWeightsRaw(ranked) == [i \in 1..Len(ranked) |-> ranked[i][2]]

\* weights of the stored-score path, in the order of `ranked`
ScoreWeights(ranked) == [i \in 1..Len(ranked) |-> Max2(ranked[i][2], WeightFloor)]

\* weights of the fallback path, in the order of `structures`
FallbackWeights(structures) ==
    LET scores == [i \in 1..Len(structures) |-> fallback_structure_score(structures[i])]
        min_score == SeqMin(scores)
        shift == IF min_score < 0 THEN Abs(min_score) + WeightFloor ELSE WeightFloor
    IN [i \in 1..Len(scores) |-> scores[i] + shift]

\* Mutant of exploratory_structures: no structure is left out.
exploratory_any(structures) == structures

\* lines 205-208
exploratory_structures(structures) ==
    SelectSeq(structures,
              LAMBDA s : s.age_weeks < ExploreMaxAge \/ s.usage_count < ExploreMaxUsage)

\* _select_structure: the structures one call can return, for a non-empty
\* list of structures with distinct ids.
select_structure(structures, explore) ==
    LET exploratory == exploratory_structures(structures)
        ranked == rank_structures([i \in 1..Len(structures) |-> structures[i].id])
        weights == ScoreWeights(ranked)
        ranked_structs == [i \in 1..Len(ranked) |-> StructById(structures, ranked[i][1])]
        fweights == FallbackWeights(structures)
    IN IF explore
       THEN IF exploratory # <<>> THEN SeqToSet(exploratory) ELSE SeqToSet(structures)
       ELSE IF has_structure_scores /\ SumSeq(weights) > 0 /\ ranked_structs # <<>>
       THEN Choices(ranked_structs, weights)
       ELSE IF SumSeq(fweights) > 0
       THEN Choices(structures, fweights)
       ELSE SeqToSet(structures)

\* ------------------------------------------------- requests and responses
\* Mutant of filtered_structures: the renderer filter is missing.
unfiltered_structures(r) == r.prompt_structures

\* line 397
filtered_structures(r) ==
    SelectSeq(r.prompt_structures, LAMBDA s : s.renderer = r.renderer)

\* The calls the model makes: every combination of arguments in which one
\* sampling context can be drawn in at most MaxContextChoices ways.
Requests ==
    { r \in [num_prompts : 1..MaxPrompts, renderer : Renderers,
             designers : SUBSET AllDesigners, colors : SUBSET AllColors,
             tops : SUBSET AllTops, others : SUBSET AllOthers,
             prompt_structures : StructureLists, llm_client : BOOLEAN] :
        Cardinality(r.designers) * Cardinality(r.colors)
          * Cardinality(r.tops \cup r.others) * Len(filtered_structures(r))
        <= MaxContextChoices }

NoRequest ==
    [num_prompts |-> 0, renderer |-> "", designers |-> {}, colors |-> {},
     tops |-> {}, others |-> {}, prompt_structures |-> <<>>, llm_client |-> FALSE]

NoResult == [status |-> "none", prompts |-> <<>>, error |-> ""]

Failure(msg) == [status |-> "error", prompts |-> <<>>, error |-> msg]

Success(prompts) == [status |-> "ok", prompts |-> prompts, error |-> ""]

\* Mutant of ContextChoices: the structure is drawn as build_contexts draws
\* it when its explore argument is left at its default.
ContextChoicesDefault(r, explore) ==
    { [designer |-> d, color |-> c, garment |-> g, prompt_structure |-> s] :
        d \in r.designers, c \in r.colors,
        g \in select_garment(r.tops, r.others),
        s \in select_structure(filtered_structures(r), FALSE) }

\* One pass of the loop body of build_contexts: the contexts it can draw.
ContextChoices(r, explore) ==
    { [designer |-> d, color |-> c, garment |-> g, prompt_structure |-> s] :
        d \in r.designers, c \in r.colors,
        g \in select_garment(r.tops, r.others),
        s \in select_structure(filtered_structures(r), explore) }

\* build_contexts(count, explore), for pools in which every draw succeeds
build_contexts(r, count, explore) ==
    { [i \in 1..count |-> f[i]] : f \in [1..count -> ContextChoices(r, explore)] }

\* line 445: the most frequent structure id of the contexts; which one of
\* several equally frequent ids max() returns depends on set order.
Occurrences(contexts, sid) ==
    Cardinality({i \in 1..Len(contexts) : contexts[i].prompt_structure.id = sid})

PrimaryStructureIds(contexts) ==
    IF contexts = <<>> THEN {"None"}
    ELSE LET ids == {contexts[i].prompt_structure.id : i \in 1..Len(contexts)}
         IN {sid \in ids : \A other \in ids :
                Occurrences(contexts, sid) >= Occurrences(contexts, other)}

\* lines 447-453
AttemptPayload(r, contexts, explore) ==
    [num_prompts |-> Len(contexts), renderer |-> r.renderer,
     prompt_structures |-> filtered_structures(r),
     prompt_contexts |-> contexts, explore_mode |-> explore]

\* The variables the adjective injection of _generate_locally can add for
\* one context (lines 352-361).
AdjectiveVars(explore) ==
    LET weighted_adjs == get_weighted_adjectives
        top_adjs == SubSeq(weighted_adjs, 1, Min2(3, Len(weighted_adjs)))
        weights == [i \in 1..Len(top_adjs) |-> top_adjs[i][2]]
    IN IF has_preferences /\ ~explore /\ weighted_adjs # <<>> /\ SumSeq(weights) > 0
       THEN {"preferenceAdjective" :> <<sel[1]>> : sel \in Choices(top_adjs, weights)}
       ELSE {[k \in {} |-> <<>>]}

PromptItem(text, designerId, garmentId, promptStructureId, renderer) ==
    [is_object |-> TRUE, keys |-> REQUIRED_PROMPT_KEYS, nulls |-> {},
     promptText |-> text, designerId |-> designerId, garmentId |-> garmentId,
     promptStructureId |-> promptStructureId, renderer |-> renderer]

\* the item _generate_locally appends for one context (lines 349-375)
LocalPrompt(ctx, renderer, extra) ==
    LET variables == extra @@ build_variable_map(ctx.designer, ctx.color, ctx.garment)
    IN PromptItem(FinishText(ctx.prompt_structure.skeleton, variables),
                  ctx.designer.id, ctx.garment.id, ctx.prompt_structure.id, renderer)

generate_locally(contexts, renderer, explore) ==
    { [i \in 1..Len(contexts) |-> LocalPrompt(contexts[i], renderer, f[i])] :
        f \in [1..Len(contexts) -> AdjectiveVars(explore)] }

OtherRenderer(renderer) == CHOOSE x \in Renderers : x # renderer

\* Elements the generator can put in its "prompts" list: the echo of the
\* first context it was sent, and that echo with one defect.
GeneratorItems(r, contexts) ==
    LET ctx == contexts[1]
        good == PromptItem(<<"look", " ", "-", "-", "-">>, ctx.designer.id,
                           ctx.garment.id, ctx.prompt_structure.id, r.renderer)
    IN { good,
         [good EXCEPT !.keys = REQUIRED_PROMPT_KEYS \ {"garmentId"}, !.garmentId = ""],
         [good EXCEPT !.renderer = OtherRenderer(r.renderer)],
         [good EXCEPT !.nulls = {"promptText"}, !.promptText = <<>>],
         [good EXCEPT !.designerId = "recZZ"],
         [good EXCEPT !.promptText = <<"look">>],
         [good EXCEPT !.is_object = FALSE, !.keys = {}] }

RECURSIVE SeqsUpTo(_, _)
SeqsUpTo(S, n) ==
    IF n = 0 THEN {<<>>}
    ELSE LET shorter == SeqsUpTo(S, n - 1)
         IN shorter \cup {Append(q, x) : q \in {t \in shorter : Len(t) = n - 1}, x \in S}

\* What one round trip can hand back as message content: text that is not
\* JSON, JSON that is not an object, an object without "prompts", or an
\* object with a list of prompts.
GeneratorContents(r, contexts) ==
    { [kind |-> k, prompts |-> <<>>] : k \in {"malformed", "not_object", "no_prompts"} }
    \cup { [kind |-> "prompts", prompts |-> ps] :
            ps \in SeqsUpTo(GeneratorItems(r, contexts), MaxResponseLen) }

\* prompt.get("renderer")
ItemRenderer(prompt) ==
    IF "renderer" \in prompt.keys /\ "renderer" \notin prompt.nulls
    THEN prompt.renderer ELSE "None"

\* Mutant of Skipped: the renderer test is missing.
SkippedKeysOnly(prompt, renderer) == REQUIRED_PROMPT_KEYS \ prompt.keys # {}

\* lines 466-469: the two tests that make the loop skip an item
Skipped(prompt, renderer) ==
    \/ REQUIRED_PROMPT_KEYS \ prompt.keys # {}
    \/ ItemRenderer(prompt) # renderer

\* Mutant of TargetReached: any accepted item counts as the target.
TargetReachedEarly(accum, target) == Len(accum) >= 1

\* lines 464 and 471
TargetReached(accum, target) == Len(accum) >= target

\* s[:n]
PySlice(s, n) == SubSeq(s, 1, Min2(n, Len(s)))

\* the for loop of lines 463-470: the accumulated items, the exception that
\* ended the loop, if any (an element that is not an object has no keys()),
\* and the number of elements left when the loop broke off at the target
RECURSIVE AcceptPrompts(_, _, _, _)
AcceptPrompts(accum, prompts, target, renderer) ==
    IF prompts = <<>> THEN [accum |-> accum, error |-> "", extra |-> 0]
    ELSE IF TargetReached(accum, target)
    THEN [accum |-> accum, error |-> "", extra |-> Len(prompts)]
    ELSE LET prompt == Head(prompts)
         IN IF ~prompt.is_object
            THEN [accum |-> accum, error |-> "Exception", extra |-> 0]
            ELSE IF Skipped(prompt, renderer)
            THEN AcceptPrompts(accum, Tail(prompts), target, renderer)
            ELSE AcceptPrompts(Append(accum, prompt), Tail(prompts), target, renderer)

\* the items of `prompts` the loop skips before it stops
RECURSIVE SkippedCount(_, _, _, _)
SkippedCount(accum, prompts, target, renderer) ==
    IF prompts = <<>> \/ TargetReached(accum, target) \/ ~Head(prompts).is_object THEN 0
    ELSE IF Skipped(Head(prompts), renderer)
    THEN 1 + SkippedCount(accum, Tail(prompts), target, renderer)
    ELSE SkippedCount(Append(accum, Head(prompts)), Tail(prompts), target, renderer)

\* lines 461-462 and the loop: what handling one message content does to
\* prompts_accum
HandleContent(accum, content, target, renderer) ==
    CASE content.kind = "malformed" ->
            [accum |-> accum, error |-> "JSONDecodeError", extra |-> 0]
      [] content.kind = "not_object" ->
            [accum |-> accum, error |-> "Exception", extra |-> 0]
      [] OTHER -> AcceptPrompts(accum, content.prompts, target, renderer)

\* ------------------------------------------------------------ store actions
Some(v) == [some |-> TRUE, v |-> v]

NoRate == [some |-> FALSE, v |-> 0]

NoDict == [some |-> FALSE, v |-> <<>>]

\* What a direct call of a store method gave back.
Call(op, args, value) == [op |-> op, args |-> args, value |-> value]

NoReturn == Call("none", <<>>, <<>>)

\* No record fetch is running.
NoFetch ==
    [pc |-> "idle", table_id |-> "", attempt |-> 0, delay |-> 0, requests |-> 0,
     sleeps |-> <<>>, errors |-> <<>>, payload |-> [kind |-> "none", records |-> <<>>],
     value |-> <<>>, error |-> ""]

\* Mutant of EventLoopFree: a handler starts while a generation request
\* waits for the generator.
EventLoopShared == pc \in {"idle", "llm", "status"}

\* Every endpoint is an async def whose body never awaits (main.py), and the
\* generator client and time.sleep block: the event loop runs one handler
\* body from its first line to its return before it starts another.
EventLoopFree == pc = "idle"

\* Mutant of update: structure scores that are not supplied are emptied.
update_drops_omitted(u) ==
    /\ EventLoopFree
    /\ returned' = Call("update", u, <<>>)
    /\ preferences' = SortDesc(u.preferences)
    /\ exploration_rate' =
          IF u.exploration_rate.some THEN Clamp(u.exploration_rate.v) ELSE exploration_rate
    /\ structure_scores' =
          IF u.structure_scores.some THEN SortDesc(u.structure_scores.v) ELSE <<>>
    /\ structure_prompt_insights' =
          IF u.structure_prompt_insights.some THEN u.structure_prompt_insights.v
          ELSE structure_prompt_insights
    /\ last_updated' = "ts"
    /\ UNCHANGED <<exploration_count, exploitation_count>>
    /\ UNCHANGED callVars
    /\ UNCHANGED obsVars

\* PreferenceAdapter.update, as POST /update_preferences calls it
update(u) ==
    /\ EventLoopFree
    /\ returned' = Call("update", u, <<>>)
    /\ preferences' = SortDesc(u.preferences)
    /\ exploration_rate' =
          IF u.exploration_rate.some THEN Clamp(u.exploration_rate.v) ELSE exploration_rate
    /\ structure_scores' =
          IF u.structure_scores.some THEN SortDesc(u.structure_scores.v) ELSE structure_scores
    /\ structure_prompt_insights' =
          IF u.structure_prompt_insights.some THEN u.structure_prompt_insights.v
          ELSE structure_prompt_insights
    /\ last_updated' = "ts"
    /\ UNCHANGED <<exploration_count, exploitation_count>>
    /\ UNCHANGED callVars
    /\ UNCHANGED obsVars

\* Mutant of clear: the exploration rate is left as it is.
clear_keeps_rate ==
    /\ EventLoopFree
    /\ returned' = Call("clear", <<>>, <<>>)
    /\ preferences' = <<>>
    /\ structure_scores' = <<>>
    /\ structure_prompt_insights' = <<>>
    /\ last_updated' = "ts"
    /\ exploration_count' = 0
    /\ exploitation_count' = 0
    /\ UNCHANGED exploration_rate
    /\ UNCHANGED callVars
    /\ UNCHANGED obsVars

\* Mutant of clear: the decision counters are left as they are.
clear_keeps_counters ==
    /\ EventLoopFree
    /\ returned' = Call("clear", <<>>, <<>>)
    /\ preferences' = <<>>
    /\ exploration_rate' = DefaultExplorationRate
    /\ structure_scores' = <<>>
    /\ structure_prompt_insights' = <<>>
    /\ last_updated' = "ts"
    /\ UNCHANGED <<exploration_count, exploitation_count>>
    /\ UNCHANGED callVars
    /\ UNCHANGED obsVars

\* PreferenceAdapter.clear, as DELETE /preferences calls it
clear ==
    /\ EventLoopFree
    /\ returned' = Call("clear", <<>>, <<>>)
    /\ preferences' = <<>>
    /\ exploration_rate' = DefaultExplorationRate
    /\ structure_scores' = <<>>
    /\ structure_prompt_insights' = <<>>
    /\ last_updated' = "ts"
    /\ exploration_count' = 0
    /\ exploitation_count' = 0
    /\ UNCHANGED callVars
    /\ UNCHANGED obsVars

\* ------------------------------------------------------- generation actions
Exhausted == Failure("LLM could not return required prompt count")

\* Entry of iteration n of the retry loop with the given contexts, up to the
\* first round trip: the payload is built, and _call_llm builds the system
\* prompt before it calls the client.  If that raises, the except clause
\* moves to the next iteration with the same contexts; after the last
\* iteration line 484 raises.
RECURSIVE EnterAttempt(_, _, _, _, _, _, _, _)
EnterAttempt(n, r, contexts, primary, explore, accepted, pls, log) ==
    IF n >= LlmAttempts
    THEN [pc |-> "done", attempt |-> n, payloads |-> pls, attempt_log |-> log,
          result |-> Exhausted]
    ELSE LET sent == Append(pls, AttemptPayload(r, contexts, explore))
         IN IF BuildSystemPromptRaises(primary, explore)
            THEN EnterAttempt(n + 1, r, contexts, primary, explore, accepted, sent,
                              Append(log, [error |-> "Exception", accepted |-> accepted]))
            ELSE [pc |-> "llm", attempt |-> n, payloads |-> sent, attempt_log |-> log,
                  result |-> NoResult]

\* Mutant of MissingPools: the color pool is not tested.
MissingDesignersOnly(r) == r.designers = {}

\* line 401
MissingPools(r) == r.designers = {} \/ r.colors = {}

\* The call fails before any context is built or any store method is called.
RejectRequest(r, msg) ==
    /\ pc' = "done"
    /\ req' = r
    /\ result' = Failure(msg)
    /\ UNCHANGED <<explore_mode, contexts_remaining, prompts_accum, attempt,
                   primary_structure_id, call_attempt>>
    /\ UNCHANGED storeVars
    /\ UNCHANGED obsVars
    /\ UNCHANGED returned

\* Mutant of explore_decision: the draw is made whether or not preferences
\* are loaded.
explore_decision_always(u) == exploring(u)

\* line 406: adapter.should_explore(rng) if adapter.has_preferences else False
explore_decision(u) == has_preferences /\ exploring(u)

\* generate_prompts_with_llm from its entry to its return (local path), to
\* its first round trip (generator path) or to the error it raises.
GenerateRequest(r) ==
    /\ pc = "idle"
    /\ has_preferences => exploration_count + exploitation_count < MaxDecisions
    /\ IF filtered_structures(r) = <<>>
       THEN RejectRequest(r, "No prompt structures found for renderer")
       ELSE IF MissingPools(r)
       THEN RejectRequest(r, "Designers and colors are required")
       ELSE \E u \in Draws :
          LET explore == explore_decision(u)
          IN /\ req' = r
             /\ explore_mode' = explore
             \* should_explore (preferences.py 233-250)
             /\ exploration_count' =
                   Counted(exploration_count, has_preferences /\ explore)
             /\ exploitation_count' =
                   Counted(exploitation_count, has_preferences /\ ~explore)
             /\ explore_calls' = IF has_preferences THEN 1 ELSE 0
             /\ store_seen' = {StoreSnapshot}
             /\ UNCHANGED returned
             /\ UNCHANGED <<preferences, exploration_rate, structure_scores,
                            structure_prompt_insights, last_updated>>
             /\ IF r.designers = {} \/ r.colors = {} \/ (r.tops = {} /\ r.others = {})
                THEN \* the first build_contexts raises, outside the try block:
                     \* rng.choice on an empty pool, or _select_garment
                     /\ pc' = "done"
                     /\ result' = IF r.designers = {} \/ r.colors = {}
                                   THEN Failure("IndexError")
                                   ELSE Failure("No garments available")
                     /\ UNCHANGED <<contexts_remaining, prompts_accum, attempt,
                                    primary_structure_id, call_attempt, payloads,
                                    attempt_log, extra_items, skipped_items,
                                    llm_calls, built_contexts>>
                ELSE \E contexts \in build_contexts(r, r.num_prompts, explore) :
                     /\ built_contexts' = contexts
                     /\ IF ~r.llm_client
                        THEN \E prompts \in generate_locally(contexts, r.renderer, explore) :
                             /\ pc' = "done"
                             /\ result' = Success(prompts)
                             /\ UNCHANGED <<contexts_remaining, prompts_accum, attempt,
                                            primary_structure_id, call_attempt,
                                            payloads, attempt_log, extra_items,
                                            skipped_items, llm_calls>>
                        ELSE \E primary \in PrimaryStructureIds(contexts) :
                             LET e == EnterAttempt(0, r, contexts, primary, explore,
                                                   0, <<>>, <<>>)
                             IN /\ pc' = e.pc
                                /\ attempt' = e.attempt
                                /\ payloads' = e.payloads
                                /\ attempt_log' = e.attempt_log
                                /\ result' = e.result
                                /\ contexts_remaining' = contexts
                                /\ primary_structure_id' = primary
                                /\ UNCHANGED <<prompts_accum, call_attempt, llm_calls,
                                               extra_items, skipped_items>>

\* Mutant of AttemptFails: only json.JSONDecodeError is caught, any other
\* exception leaves the function.
AttemptFailsUncaught(error, accum) ==
    LET log == Append(attempt_log, [error |-> error, accepted |-> Len(accum)])
        e == IF error = "JSONDecodeError"
             THEN EnterAttempt(attempt + 1, req, contexts_remaining,
                               primary_structure_id, explore_mode, Len(accum),
                               payloads, log)
             ELSE [pc |-> "done", attempt |-> attempt, payloads |-> payloads,
                   attempt_log |-> log, result |-> Failure(error)]
    IN /\ prompts_accum' = accum
       /\ pc' = e.pc
       /\ attempt' = e.attempt
       /\ payloads' = e.payloads
       /\ attempt_log' = e.attempt_log
       /\ result' = e.result
       /\ call_attempt' = 0
       \* the next attempt builds its system prompt from the store
       /\ store_seen' = IF attempt + 1 < LlmAttempts
                         THEN store_seen \cup {StoreSnapshot} ELSE store_seen
       /\ UNCHANGED <<req, explore_mode, contexts_remaining, primary_structure_id,
                      built_contexts, extra_items, skipped_items>>

\* The except clauses of the retry loop: the attempt ends with an error and
\* the loop moves on with the contexts it had.
AttemptFails(error, accum) ==
    LET log == Append(attempt_log, [error |-> error, accepted |-> Len(accum)])
        e == EnterAttempt(attempt + 1, req, contexts_remaining, primary_structure_id,
                          explore_mode, Len(accum), payloads, log)
    IN /\ prompts_accum' = accum
       /\ pc' = e.pc
       /\ attempt' = e.attempt
       /\ payloads' = e.payloads
       /\ attempt_log' = e.attempt_log
       /\ result' = e.result
       /\ call_attempt' = 0
       \* the next attempt builds its system prompt from the store
       /\ store_seen' = IF attempt + 1 < LlmAttempts
                         THEN store_seen \cup {StoreSnapshot} ELSE store_seen
       /\ UNCHANGED <<req, explore_mode, contexts_remaining, primary_structure_id,
                      built_contexts, extra_items, skipped_items>>

\* One round trip of _call_llm in which the client raises (connection
\* error, timeout): _call_llm sleeps and calls again, or re-raises after its
\* last round trip.
LlmCallRaises ==
    /\ pc = "llm"
    /\ llm_calls' = llm_calls + 1
    /\ IF call_attempt < LlmCallRetries - 1
       THEN /\ call_attempt' = call_attempt + 1
            /\ UNCHANGED <<pc, req, explore_mode, contexts_remaining, prompts_accum,
                           attempt, primary_structure_id, result, payloads,
                           attempt_log, built_contexts, extra_items, skipped_items,
                           store_seen>>
       ELSE AttemptFails("Exception", prompts_accum)
    /\ UNCHANGED storeVars
    /\ UNCHANGED <<explore_calls, returned>>

\* One round trip of _call_llm in which the client answers, and the rest of
\* the attempt: parsing, acceptance, return or rebuilt contexts.
LlmCallReturns(content) ==
    /\ pc = "llm"
    /\ llm_calls' = llm_calls + 1
    /\ LET h == HandleContent(prompts_accum, content, req.num_prompts, req.renderer)
           target == req.num_prompts
       IN IF h.error # ""
          THEN AttemptFails(h.error, h.accum)
          ELSE IF TargetReached(h.accum, target)
          THEN /\ pc' = "done"
               /\ result' = Success(PySlice(h.accum, target))
               /\ prompts_accum' = h.accum
               /\ attempt_log' = Append(attempt_log,
                                        [error |-> "", accepted |-> Len(h.accum)])
               /\ extra_items' = h.extra
               /\ skipped_items' = SkippedCount(prompts_accum, content.prompts,
                                                target, req.renderer)
               /\ UNCHANGED <<req, explore_mode, contexts_remaining, attempt,
                              primary_structure_id, call_attempt, payloads,
                              built_contexts, store_seen>>
          ELSE \E contexts \in build_contexts(req, target - Len(h.accum), explore_mode) :
               \E primary \in PrimaryStructureIds(contexts) :
               LET log == Append(attempt_log, [error |-> "", accepted |-> Len(h.accum)])
                   e == EnterAttempt(attempt + 1, req, contexts, primary, explore_mode,
                                     Len(h.accum), payloads, log)
               IN /\ prompts_accum' = h.accum
                  /\ contexts_remaining' = contexts
                  /\ primary_structure_id' = primary
                  /\ built_contexts' = built_contexts \o contexts
                  /\ pc' = e.pc
                  /\ attempt' = e.attempt
                  /\ payloads' = e.payloads
                  /\ attempt_log' = e.attempt_log
                  /\ result' = e.result
                  /\ call_attempt' = 0
                  \* build_contexts ranks the structures by the stored scores
                  /\ store_seen' = store_seen \cup {StoreSnapshot}
                  /\ UNCHANGED <<req, explore_mode, extra_items, skipped_items>>
    /\ UNCHANGED storeVars
    /\ UNCHANGED <<explore_calls, returned>>

\* GET /preferences up to its first reads of the store (main.py 116-120):
\* the has_ flags and the top preferences.
get_preferences_reads ==
    /\ EventLoopFree
    /\ pc' = "status"
    /\ store_seen' = {StoreSnapshot}
    /\ UNCHANGED storeVars
    /\ UNCHANGED <<req, explore_mode, contexts_remaining, prompts_accum, attempt,
                   primary_structure_id, call_attempt, result>>
    /\ UNCHANGED <<payloads, attempt_log, llm_calls, built_contexts, explore_calls,
                   extra_items, skipped_items, returned>>

\* GET /preferences from its later reads (main.py 121-124: the rate, the
\* counts, last_updated) to its response.
get_preferences_returns ==
    /\ pc = "status"
    /\ pc' = "status_done"
    /\ store_seen' = store_seen \cup {StoreSnapshot}
    /\ UNCHANGED storeVars
    /\ UNCHANGED <<req, explore_mode, contexts_remaining, prompts_accum, attempt,
                   primary_structure_id, call_attempt, result>>
    /\ UNCHANGED <<payloads, attempt_log, llm_calls, built_contexts, explore_calls,
                   extra_items, skipped_items, returned>>

\* generate_prompts, lines 54-60: one of the four record fetches raised;
\* the handler answers without calling generate_prompts_with_llm.
FetchFails ==
    /\ EventLoopFree
    /\ pc' = "fetch_error"
    /\ result' = Failure("Airtable error")
    /\ UNCHANGED <<req, explore_mode, contexts_remaining, prompts_accum, attempt,
                   primary_structure_id, call_attempt>>
    /\ UNCHANGED storeVars
    /\ UNCHANGED obsVars
    /\ UNCHANGED returned

\* response_model=GeneratePromptsResponse (main.py 51, models.py 11-20):
\* every item of a returned result must hold a string under each of the
\* five fields.
ResponseValid(prompts) ==
    \A i \in 1..Len(prompts) :
        /\ prompts[i].is_object
        /\ REQUIRED_PROMPT_KEYS \subseteq prompts[i].keys
        /\ prompts[i].nulls = {}

\* Mutant of EndpointResponse: an exception of the core leaves the handler.
EndpointResponseUncaught ==
    IF pc # "fetch_error" /\ result.status = "error"
    THEN [status_code |-> 0, prompts |-> <<>>, error |-> ""]
    ELSE IF result.status = "error"
    THEN [status_code |-> 500, prompts |-> <<>>, error |-> result.error]
    ELSE [status_code |-> 200, prompts |-> result.prompts, error |-> ""]

\* What the client of POST /generate-prompts gets for the result the
\* handler holds: the JSONResponse of lines 60 and 74, the framework's own
\* 500 for a result that fails the response model, or the result.
EndpointResponse ==
    IF result.status = "error"
    THEN [status_code |-> 500, prompts |-> <<>>, error |-> result.error]
    ELSE IF ~ResponseValid(result.prompts)
    THEN [status_code |-> 500, prompts |-> <<>>, error |-> "Internal Server Error"]
    ELSE [status_code |-> 200, prompts |-> result.prompts, error |-> ""]

\* The caller has the result; the next call starts from fresh locals.
Return ==
    /\ pc \in {"done", "status_done", "fetch_error"}
    /\ pc' = "idle"
    /\ req' = NoRequest
    /\ explore_mode' = FALSE
    /\ contexts_remaining' = <<>>
    /\ prompts_accum' = <<>>
    /\ attempt' = 0
    /\ primary_structure_id' = "None"
    /\ call_attempt' = 0
    /\ result' = NoResult
    /\ payloads' = <<>>
    /\ attempt_log' = <<>>
    /\ extra_items' = 0
    /\ skipped_items' = 0
    /\ llm_calls' = 0
    /\ built_contexts' = <<>>
    /\ explore_calls' = 0
    /\ store_seen' = {}
    /\ UNCHANGED storeVars
    /\ UNCHANGED returned

\* ----------------------------------------------------------- specification
\* Feedback the optimizer pushes.
P1 == << <<"boxy", 30>>, <<"unlisted", 90>>, <<"tailored", 80>> >>

S1 == << <<"recC", 5>>, <<"recB", 90>> >>

I1 == << <<"recB", [top_prompts |-> <<[rate_is_number |-> FALSE]>>]>> >>

UpdateRequests ==
    { [preferences |-> P1, exploration_rate |-> NoRate,
       structure_scores |-> Some(S1), structure_prompt_insights |-> Some(I1)] }

Init ==
    /\ preferences = <<>>
    /\ exploration_rate = DefaultExplorationRate
    /\ structure_scores = <<>>
    /\ structure_prompt_insights = <<>>
    /\ last_updated = "None"
    /\ exploration_count = 0
    /\ exploitation_count = 0
    /\ pc = "idle"
    /\ req = NoRequest
    /\ explore_mode = FALSE
    /\ contexts_remaining = <<>>
    /\ prompts_accum = <<>>
    /\ attempt = 0
    /\ primary_structure_id = "None"
    /\ call_attempt = 0
    /\ result = NoResult
    /\ payloads = <<>>
    /\ attempt_log = <<>>
    /\ extra_items = 0
    /\ skipped_items = 0
    /\ llm_calls = 0
    /\ built_contexts = <<>>
    /\ explore_calls = 0
    /\ store_seen = {}
    /\ returned = NoReturn
    /\ received = <<>>
    /\ fetch = NoFetch

Next ==
    \/ /\ \E u \in UpdateRequests : update(u)
       /\ UNCHANGED auxVars
    \/ /\ clear
       /\ UNCHANGED auxVars
    \/ /\ FetchFails
       /\ UNCHANGED auxVars
    \/ /\ \E r \in Requests : GenerateRequest(r)
       /\ UNCHANGED auxVars
    \/ /\ LlmCallRaises
       /\ UNCHANGED auxVars
    \/ /\ pc = "llm"
       /\ \E content \in GeneratorContents(req, contexts_remaining) : LlmCallReturns(content)
       /\ UNCHANGED auxVars
    \/ /\ get_preferences_reads
       /\ UNCHANGED auxVars
    \/ /\ get_preferences_returns
       /\ UNCHANGED auxVars
    \/ /\ Return
       /\ UNCHANGED auxVars

Spec == Init /\ [][Next]_vars

\* ------------------------------------------- the store under direct calls
\* PreferenceAdapter.reset_exploration_stats, as POST
\* /preferences/reset_exploration_stats calls it
reset_exploration_stats ==
    /\ EventLoopFree
    /\ exploration_count' = 0
    /\ exploitation_count' = 0
    /\ returned' = Call("reset_exploration_stats", <<>>, <<>>)
    /\ UNCHANGED <<preferences, exploration_rate, structure_scores,
                   structure_prompt_insights, last_updated>>
    /\ UNCHANGED callVars
    /\ UNCHANGED obsVars

\* Mutant of should_explore: every decision is counted as an exploration.
should_explore_one_counter(u) ==
    /\ pc = "idle"
    /\ exploration_count + exploitation_count < MaxStoreDecisions
    /\ exploration_count' = exploration_count + 1
    /\ exploitation_count' = exploitation_count
    /\ returned' = Call("should_explore", u, exploring(u))
    /\ UNCHANGED <<preferences, exploration_rate, structure_scores,
                   structure_prompt_insights, last_updated>>
    /\ UNCHANGED callVars
    /\ UNCHANGED obsVars

\* PreferenceAdapter.should_explore with the draw u of rng.random()
should_explore(u) ==
    /\ pc = "idle"
    /\ exploration_count + exploitation_count < MaxStoreDecisions
    /\ exploration_count' = Counted(exploration_count, exploring(u))
    /\ exploitation_count' = Counted(exploitation_count, ~exploring(u))
    /\ returned' = Call("should_explore", u, exploring(u))
    /\ UNCHANGED <<preferences, exploration_rate, structure_scores,
                   structure_prompt_insights, last_updated>>
    /\ UNCHANGED callVars
    /\ UNCHANGED obsVars

\* A method that only reads the store.
ReadCall(op, args, value) ==
    /\ pc = "idle"
    /\ returned' = Call(op, args, value)
    /\ UNCHANGED storeVars
    /\ UNCHANGED callVars
    /\ UNCHANGED obsVars

call_rank_structures(structure_ids) ==
    ReadCall("rank_structures", structure_ids, rank_structures(structure_ids))

call_get_top_preferences(n) ==
    ReadCall("get_top_preferences", n, get_top_preferences(n))

call_get_top_structures(n) ==
    ReadCall("get_top_structures", n, get_top_structures(n))

\* round(a / b, 4) in ten-thousandths, for the ratios of small counts
RoundRatio(a, b) == (2 * 10000 * a + b) \div (2 * b)

\* PreferenceAdapter.get_exploration_stats
get_exploration_stats ==
    LET total == exploration_count + exploitation_count
    IN [exploration_count |-> exploration_count,
        exploitation_count |-> exploitation_count,
        total_decisions |-> total,
        actual_exploration_rate |->
            IF total > 0 THEN RoundRatio(exploration_count, total) ELSE 0,
        configured_exploration_rate |-> exploration_rate]

call_get_exploration_stats ==
    ReadCall("get_exploration_stats", <<>>, get_exploration_stats)

\* Feedback of every shape: each optional field omitted or supplied, rates
\* outside [0,1], equal scores, empty mappings.
P2 == << <<"tailored", 45>>, <<"boxy", 45>>, <<"muted", 60>> >>

S2 == << <<"recA", 50>>, <<"recX", 70>>, <<"recB", 70>> >>

Rates == {0 - 5, 0, 35, 100, 150}

StoreUpdateRequests ==
    [preferences : {<<>>, P1, P2},
     exploration_rate : {NoRate} \cup {Some(x) : x \in Rates},
     structure_scores : {NoDict, Some(<<>>), Some(S2)},
     structure_prompt_insights : {NoDict, Some(I1)}]

RankedIds == {"recA", "recB", "recQ"}

IdLists == SeqsUpTo(RankedIds, MaxIds)

TopSizes == 0..MaxTop

NextStore ==
    \/ /\ \E u \in StoreUpdateRequests : update(u)
       /\ UNCHANGED auxVars
    \/ /\ clear
       /\ UNCHANGED auxVars
    \/ /\ reset_exploration_stats
       /\ UNCHANGED auxVars
    \/ /\ \E u \in Draws : should_explore(u)
       /\ UNCHANGED auxVars
    \/ /\ \E structure_ids \in IdLists : call_rank_structures(structure_ids)
       /\ UNCHANGED auxVars
    \/ /\ \E n \in TopSizes : call_get_top_preferences(n)
       /\ UNCHANGED auxVars
    \/ /\ \E n \in TopSizes : call_get_top_structures(n)
       /\ UNCHANGED auxVars
    \/ /\ call_get_exploration_stats
       /\ UNCHANGED auxVars

SpecStore == Init /\ [][NextStore]_vars

\* ------------------------------------------- the generation core, observed
\* generate_prompts_with_llm for one prompt, with every answer of the
\* generator logged in `received`.  The store is loaded with several
\* adjectives that qualify for injection, or with a rate and scores but no
\* preferences.

\* The generator is used for one renderer only.
CoreRequests ==
    { r \in Requests : r.num_prompts = 1 /\ (r.llm_client => r.renderer = "Recraft") }

CoreUpdateRequests ==
    { [preferences |-> P2, exploration_rate |-> NoRate,
       structure_scores |-> Some(S1), structure_prompt_insights |-> NoDict],
      [preferences |-> <<>>, exploration_rate |-> Some(100),
       structure_scores |-> Some(S1), structure_prompt_insights |-> NoDict] }

\* The answers the generator gives here: text that is not JSON, or a list
\* made of the echo of the first context, of that echo with another text,
\* of that echo for the other renderer, and of an element that is not an
\* object.
CoreContents(r, contexts) ==
    { c \in GeneratorContents(r, contexts) :
        \/ c.kind = "malformed"
        \/ /\ c.kind = "prompts"
           /\ \A i \in 1..Len(c.prompts) :
                 /\ REQUIRED_PROMPT_KEYS \subseteq c.prompts[i].keys \/ ~c.prompts[i].is_object
                 /\ c.prompts[i].nulls = {}
                 /\ c.prompts[i].designerId # "recZZ" }

NextCore ==
    \/ /\ \E u \in CoreUpdateRequests : update(u)
       /\ UNCHANGED auxVars
    \/ /\ clear
       /\ UNCHANGED auxVars
    \/ /\ \E r \in CoreRequests : GenerateRequest(r)
       /\ UNCHANGED auxVars
    \/ /\ LlmCallRaises
       /\ UNCHANGED auxVars
    \/ /\ pc = "llm"
       /\ \E content \in CoreContents(req, contexts_remaining) :
             /\ LlmCallReturns(content)
             /\ received' = Append(received, content)
       /\ UNCHANGED fetch
    \/ /\ Return
       /\ received' = <<>>
       /\ UNCHANGED fetch

SpecCore == Init /\ [][NextCore]_vars

\* ------------------------------------------------ the selection functions
\* _select_garment and _select_structure called directly, over a store
\* whose structure scores are absent, positive, or zero and negative.

\* a second top, and a second structure that is neither new nor little used
SelectTops ==
    AllTops \cup { [id |-> "recT2", name |-> <<"Tee">>,
                    primary_design_elements |-> <<>>,
                    technical_features |-> <<>>,
                    premium_constructions |-> <<>>] }

SelectStructures ==
    AllStructures \o
    << [id |-> "recD", renderer |-> "Recraft", skeleton |-> <<"${designer}">>,
        outlier_count |-> 0, usage_count |-> 10, avg_rating |-> 0,
        z_score |-> 0, age_weeks |-> 4] >>

\* every non-empty sublist of SelectStructures, in the order of the list
SelectLists ==
    { l \in SeqsUpTo(SeqToSet(SelectStructures), Len(SelectStructures)) :
        /\ l # <<>>
        /\ \E f \in [1..Len(l) -> 1..Len(SelectStructures)] :
              /\ \A i \in 1..Len(l) : l[i] = SelectStructures[f[i]]
              /\ \A i, j \in 1..Len(l) : i < j => f[i] < f[j] }

S3 == << <<"recB", 0>>, <<"recC", 0 - 50>> >>

SelectUpdateRequests ==
    { [preferences |-> P1, exploration_rate |-> NoRate,
       structure_scores |-> Some(sc), structure_prompt_insights |-> NoDict] :
        sc \in {S1, S3} }

call_select_garment(tops, others, u) ==
    \E outcome \in select_garment_outcomes(tops, others, u) :
        ReadCall("select_garment", [tops |-> tops, others |-> others, u |-> u], outcome)

call_select_structure(structures, explore) ==
    \E selected \in select_structure(structures, explore) :
        ReadCall("select_structure", [structures |-> structures, explore |-> explore],
                 selected)

NextSelect ==
    \/ /\ \E u \in SelectUpdateRequests : update(u)
       /\ UNCHANGED auxVars
    \/ /\ clear
       /\ UNCHANGED auxVars
    \/ /\ \E tops \in SUBSET SelectTops, others \in SUBSET AllOthers, u \in Draws :
             call_select_garment(tops, others, u)
       /\ UNCHANGED auxVars
    \/ /\ \E structures \in SelectLists, explore \in BOOLEAN :
             call_select_structure(structures, explore)
       /\ UNCHANGED auxVars

SpecSelect == Init /\ [][NextSelect]_vars

\* ------------------------------------------------------- the record fetch
\* One call of airtable_client._fetch_records at a time, against a source
\* that fails or answers at each request.

FetchRetries == 3

FetchDelay == 1

\* table ids of the settings; the empty one is a variable left unset
Tables == {"tblDesigners", "tblColors", "tblGarments", "tblStructures", ""}

\* What makes one pass of the loop body raise: requests.get itself, the 401
\* test, raise_for_status, response.json().
HttpErrors == {"ConnectionError", "RuntimeError", "HTTPError", "JSONDecodeError"}

\* JSON bodies of a 200 response: an object with a list under "records", an
\* object without that key, a value that is not an object.
Payloads ==
    { [kind |-> "dict", records |-> rs] : rs \in SeqsUpTo({"rec1", "rec2"}, MaxRecords) }
    \cup { [kind |-> "dict_without_records", records |-> <<>>],
           [kind |-> "not_dict", records |-> <<>>] }

\* line 40
payload_records(payload) ==
    IF payload.kind = "dict" THEN payload.records ELSE <<>>

restVars == <<storeVars, callVars, obsVars, returned, received>>

\* lines 20-30: the settings checks and the locals of the loop
fetch_records(table_id, configured) ==
    /\ fetch.pc = "idle"
    /\ fetch' = IF ~configured \/ table_id = ""
                THEN [NoFetch EXCEPT !.pc = "raised", !.table_id = table_id,
                                     !.error = "ValueError"]
                ELSE [NoFetch EXCEPT !.pc = "request", !.table_id = table_id,
                                     !.delay = FetchDelay]
    /\ UNCHANGED restVars

\* Mutant of HttpFails: after the last failure the function falls through
\* to the return of the empty list.
HttpFailsSwallowed(e) ==
    /\ fetch.pc = "request"
    /\ fetch' = IF fetch.attempt = FetchRetries - 1
                THEN [fetch EXCEPT !.requests = @ + 1, !.errors = Append(@, e),
                                   !.pc = "returned", !.value = <<>>]
                ELSE [fetch EXCEPT !.requests = @ + 1, !.errors = Append(@, e),
                                   !.sleeps = Append(@, fetch.delay),
                                   !.delay = 2 * @, !.attempt = @ + 1]
    /\ UNCHANGED restVars

\* One pass of the loop body that raises e, and the except clause
\* (lines 33-43).
HttpFails(e) ==
    /\ fetch.pc = "request"
    /\ fetch' = IF fetch.attempt = FetchRetries - 1
                THEN [fetch EXCEPT !.requests = @ + 1, !.errors = Append(@, e),
                                   !.pc = "raised", !.error = e]
                ELSE [fetch EXCEPT !.requests = @ + 1, !.errors = Append(@, e),
                                   !.sleeps = Append(@, fetch.delay),
                                   !.delay = 2 * @, !.attempt = @ + 1]
    /\ UNCHANGED restVars

\* One pass of the loop body that gets a 200 response with a JSON body
\* (lines 33-40).
HttpSucceeds(payload) ==
    /\ fetch.pc = "request"
    /\ fetch' = [fetch EXCEPT !.requests = @ + 1, !.payload = payload,
                              !.pc = "returned", !.value = payload_records(payload)]
    /\ UNCHANGED restVars

\* The caller has the records or the exception.
FetchDone ==
    /\ fetch.pc \in {"returned", "raised"}
    /\ fetch' = NoFetch
    /\ UNCHANGED restVars

NextFetch ==
    \/ \E table_id \in Tables, configured \in BOOLEAN : fetch_records(table_id, configured)
    \/ \E e \in HttpErrors : HttpFails(e)
    \/ \E payload \in Payloads : HttpSucceeds(payload)
    \/ FetchDone

SpecFetch == Init /\ [][NextFetch]_vars

\* ------------------------------------------------------------- properties
Returned == pc = "done" /\ result.status = "ok"

GeneratorPath == req.llm_client /\ payloads # <<>>

PoolIds(pool) == {x.id : x \in pool}

\* C1: a call that returns hands back exactly num_prompts items, on the
\* generator path and on the local path; every other call ends in an error.
C1_ExactCountOrError ==
    pc = "done" =>
        \/ result.status = "error" /\ result.prompts = <<>>
        \/ result.status = "ok" /\ Len(result.prompts) = req.num_prompts

\* C1 witness: a first response left the call one item short and the second
\* response carried more items than were still needed.
C1_Witness ==
    /\ Returned /\ GeneratorPath
    /\ Len(attempt_log) = 2
    /\ attempt_log[1].accepted = 1
    /\ req.num_prompts = 2
    /\ extra_items > 0

\* C2: every returned item is an object with the five required keys whose
\* renderer is the renderer of the request.
C2_RequiredKeysAndRenderer ==
    Returned =>
        \A i \in 1..Len(result.prompts) :
            /\ result.prompts[i].is_object
            /\ REQUIRED_PROMPT_KEYS \subseteq result.prompts[i].keys
            /\ "renderer" \notin result.prompts[i].nulls
            /\ result.prompts[i].renderer = req.renderer

\* C2 witness: the response that completed the result also held an item
\* the loop had to skip.
C2_Witness == Returned /\ GeneratorPath /\ skipped_items > 0

\* C3: when the first attempt ends with k accepted items, k below the
\* target, the payload of the second attempt asks for target - k prompts
\* and carries that many contexts.
C3_ShortfallRequested ==
    Len(payloads) >= 2 =>
        /\ payloads[2].num_prompts = req.num_prompts - attempt_log[1].accepted
        /\ Len(payloads[2].prompt_contexts) = req.num_prompts - attempt_log[1].accepted

\* C4: every returned item names a structure of the filtered candidates, a
\* designer of the designer pool and a garment of the tops or others pool.
C4_IdsFromPools ==
    Returned =>
        \A i \in 1..Len(result.prompts) :
            /\ result.prompts[i].promptStructureId
                 \in PoolIds(SeqToSet(filtered_structures(req)))
            /\ result.prompts[i].designerId \in PoolIds(req.designers)
            /\ result.prompts[i].garmentId \in PoolIds(req.tops \cup req.others)

\* C5: every returned promptText ends with the suffix marker " ---".
C5_SuffixMarker ==
    Returned =>
        \A i \in 1..Len(result.prompts) :
            /\ "promptText" \notin result.prompts[i].nulls
            /\ EndsWith(result.prompts[i].promptText, SuffixMarker)

\* C6: no returned item holds null under a required key.
C6_NonNullFields ==
    Returned =>
        \A i \in 1..Len(result.prompts) :
            result.prompts[i].nulls \cap REQUIRED_PROMPT_KEYS = {}

\* C7 as claimed: one call makes at most 2 round trips to the generator.
C7_AtMostTwoCalls == llm_calls <= 2

\* C7 amended: an attempt makes at most 2 round trips (the client is called
\* a second time when its first call raises) and the loop has at most 2
\* attempts, so one call makes at most 4 round trips.
C7_AtMostFourCalls ==
    /\ llm_calls <= 4
    /\ Len(payloads) <= 2
    /\ (pc = "llm" => llm_calls <= 2 * attempt + call_attempt)

\* C7 witness: the client raised on every round trip of both attempts.
C7_Witness == pc = "done" /\ llm_calls = 4 /\ result = Exhausted

\* C8: an error that ends the first attempt is not what the caller gets and
\* a second attempt follows it; the only failure that comes out of the
\* retry loop is the exhaustion error, raised after the last attempt with
\* the accumulated count below the target.
C8_FirstErrorSwallowed ==
    /\ (Len(attempt_log) >= 1 /\ attempt_log[1].error # "") =>
            /\ Len(payloads) >= 2
            /\ result.error \notin {"Exception", "JSONDecodeError"}
    /\ (pc = "done" /\ result.status = "error" /\ payloads # <<>>) =>
            /\ result = Exhausted
            /\ Len(attempt_log) = 2
            /\ Len(prompts_accum) < req.num_prompts

\* C8 witness: the first attempt ended with an error and the second one
\* completed the result.
C8_Witness ==
    /\ Returned
    /\ Len(attempt_log) = 2
    /\ attempt_log[1].error = "JSONDecodeError"

InputErrors ==
    {"No prompt structures found for renderer",
     "Designers and colors are required",
     "No garments available"}

BadPools(r) ==
    \/ filtered_structures(r) = <<>>
    \/ r.designers = {}
    \/ r.colors = {}
    \/ (r.tops = {} /\ r.others = {})

\* C9: a call with no structure for its renderer, no designer, no color or
\* no garment at all ends at once with an input error: no round trip to the
\* generator, no attempt of the retry loop.
C9_InputErrorsImmediate ==
    (pc \in {"llm", "done"} /\ BadPools(req)) =>
        /\ pc = "done"
        /\ result.status = "error"
        /\ result.error \in InputErrors
        /\ llm_calls = 0
        /\ payloads = <<>>
        /\ attempt_log = <<>>

\* C9 witness: a call with a generator client, structures, designers and
\* colors, and no garment in either pool, has failed.
C9_Witness ==
    /\ pc = "done"
    /\ req.llm_client
    /\ req.tops = {} /\ req.others = {}
    /\ req.designers # {} /\ req.colors # {}
    /\ filtered_structures(req) # <<>>
    /\ result = Failure("No garments available")

OfRenderer(structures, renderer) ==
    \A i \in 1..Len(structures) : structures[i].renderer = renderer

ContextsOfRenderer(contexts, renderer) ==
    \A i \in 1..Len(contexts) : contexts[i].prompt_structure.renderer = renderer

\* C10: every structure in a sampling context and every structure in the
\* prompt_structures list of a payload has the renderer of the request.
C10_OnlyRendererStructures ==
    /\ ContextsOfRenderer(built_contexts, req.renderer)
    /\ ContextsOfRenderer(contexts_remaining, req.renderer)
    /\ \A k \in 1..Len(payloads) :
          /\ OfRenderer(payloads[k].prompt_structures, req.renderer)
          /\ ContextsOfRenderer(payloads[k].prompt_contexts, req.renderer)

\* C10 witness: the request carried a structure of another renderer and the
\* retry attempt sent a payload with freshly built contexts.
C10_Witness ==
    /\ Len(payloads) = 2
    /\ Len(built_contexts) > req.num_prompts
    /\ ~OfRenderer(req.prompt_structures, req.renderer)

\* C11: one generation request consults should_explore at most once, and
\* the flag it got is the explore_mode of every payload the request sends
\* and the mode in which every sampling context of the request, first batch
\* and retry batch alike, drew its structure.
C11_OneDecisionPerRequest ==
    /\ explore_calls <= 1
    /\ \A i \in 1..Len(payloads) : payloads[i].explore_mode = explore_mode
    /\ \A i \in 1..Len(built_contexts) :
          built_contexts[i].prompt_structure
            \in select_structure(filtered_structures(req), explore_mode)

\* An exploring request whose first response fell short: a second payload
\* went out with rebuilt contexts.
C11_Witness ==
    /\ pc = "llm"
    /\ explore_mode
    /\ explore_calls = 1
    /\ Len(payloads) = 2
    /\ Len(built_contexts) > req.num_prompts
    /\ select_structure(filtered_structures(req), FALSE)
          # select_structure(filtered_structures(req), TRUE)

\* C12: a step of a generation request leaves the attribute weights, the
\* exploration rate, the structure scores, the insights and last_updated as
\* they are; those five change only in a step of update or clear.  Of the
\* store, a request changes the two counters only, in its first step only,
\* and their sum grows by at most 1.
C12_GenerationFrame ==
    [][ /\ (pc # "idle" \/ pc' # "idle") =>
              /\ UNCHANGED <<preferences, exploration_rate, structure_scores,
                             structure_prompt_insights, last_updated>>
              /\ exploration_count' >= exploration_count
              /\ exploitation_count' >= exploitation_count
              /\ exploration_count' + exploitation_count'
                    <= exploration_count + exploitation_count + 1
        /\ pc # "idle" => UNCHANGED <<exploration_count, exploitation_count>>
        /\ <<preferences, exploration_rate, structure_scores,
              structure_prompt_insights, last_updated>>'
             # <<preferences, exploration_rate, structure_scores,
                 structure_prompt_insights, last_updated>>
             => returned'.op \in {"update", "clear"}
      ]_vars

\* A request on a store with feedback has taken its decision and gone
\* through both attempts.
C12_Witness ==
    /\ pc = "done"
    /\ explore_calls = 1
    /\ exploration_count + exploitation_count = 1
    /\ Len(payloads) = 2
    /\ last_updated = "ts"

\* C13: all the store reads of one request, a generation request or a
\* status read, see one and the same store content: no update or clear
\* lands between two of them.
C13_ConsistentReads == Cardinality(store_seen) <= 1

\* A generation request that read the store again for its retry, and a
\* status read that has made all its reads, on a store holding feedback.
C13_Witness ==
    /\ has_preferences
    /\ store_seen = {StoreSnapshot}
    /\ \/ pc = "llm" /\ attempt = 1 /\ Len(built_contexts) > req.num_prompts
       \/ pc = "status_done"

\* ---------------------------------------------- properties of the store
\* The store of a freshly constructed PreferenceAdapter.
Constructed ==
    [preferences |-> <<>>, exploration_rate |-> DefaultExplorationRate,
     structure_scores |-> <<>>, structure_prompt_insights |-> <<>>,
     last_updated |-> "None", exploration_count |-> 0, exploitation_count |-> 0]

Current ==
    [preferences |-> preferences, exploration_rate |-> exploration_rate,
     structure_scores |-> structure_scores,
     structure_prompt_insights |-> structure_prompt_insights,
     last_updated |-> last_updated, exploration_count |-> exploration_count,
     exploitation_count |-> exploitation_count]

NonIncreasing(pairs) ==
    \A i \in 1..Len(pairs) : \A j \in 1..Len(pairs) : i < j => pairs[i][2] >= pairs[j][2]

SameEntries(d, e) == Len(d) = Len(e) /\ SeqToSet(d) = SeqToSet(e)

\* C14: should_explore returns false for every draw of [0,1) when the
\* exploration rate is 0 and true for every draw of [0,1) when it is 1.
C14_BoundaryRates ==
    returned.op = "should_explore" =>
        /\ exploration_rate = 0 => returned.value = FALSE
        /\ exploration_rate = 100 => returned.value = TRUE

\* should_explore was called with the lowest draw, 0.0, on a store whose
\* rate an update has set to 0.
C14_Witness ==
    /\ returned.op = "should_explore"
    /\ returned.args = 0
    /\ exploration_rate = 0
    /\ exploitation_count = 1

\* C15: whatever calls were made, the exploration rate lies in [0,1]; an
\* update that supplies a rate below 0 stores 0 and one that supplies a
\* rate above 1 stores 1.
C15_RateClamped ==
    /\ exploration_rate >= 0
    /\ exploration_rate <= 100
    /\ (returned.op = "update" /\ returned.args.exploration_rate.some) =>
          /\ returned.args.exploration_rate.v < 0 => exploration_rate = 0
          /\ returned.args.exploration_rate.v > 100 => exploration_rate = 100

\* An update supplied the rate 1.5 and the store holds 1.
C15_Witness ==
    /\ returned.op = "update"
    /\ returned.args.exploration_rate = Some(150)
    /\ exploration_rate = 100

\* C16: a step of update leaves in attribute_weights exactly the supplied
\* entries; it replaces the rate, the structure scores and the insights
\* each when that field is supplied and leaves each as it was when the
\* field is omitted; it leaves both counters as they were.
C16_PartialUpdate ==
    [][ returned'.op = "update" =>
          LET u == returned'.args
          IN /\ SameEntries(preferences', u.preferences)
             /\ IF u.exploration_rate.some
                THEN exploration_rate' =
                       (IF u.exploration_rate.v < 0 THEN 0
                        ELSE IF u.exploration_rate.v > 100 THEN 100
                        ELSE u.exploration_rate.v)
                ELSE UNCHANGED exploration_rate
             /\ IF u.structure_scores.some
                THEN SameEntries(structure_scores', u.structure_scores.v)
                ELSE UNCHANGED structure_scores
             /\ IF u.structure_prompt_insights.some
                THEN structure_prompt_insights' = u.structure_prompt_insights.v
                ELSE UNCHANGED structure_prompt_insights
             /\ UNCHANGED <<exploration_count, exploitation_count>>
      ]_vars

\* An update that supplied attribute weights only has run on a store that
\* held a rate, scores, insights and a counted decision from before.
C16_Witness ==
    /\ returned.op = "update"
    /\ returned.args.preferences = P2
    /\ ~returned.args.exploration_rate.some
    /\ ~returned.args.structure_scores.some
    /\ ~returned.args.structure_prompt_insights.some
    /\ SameEntries(preferences, P2)
    /\ exploration_rate = 35
    /\ structure_scores # <<>>
    /\ structure_prompt_insights # <<>>
    /\ exploration_count + exploitation_count > 0

\* C17: after clear the exploration rate is 0.2, the attribute weights, the
\* structure scores and the insights are empty, the three has_ flags are
\* false and both counters are 0.
C17_ClearedStore ==
    returned.op = "clear" =>
        /\ exploration_rate = DefaultExplorationRate
        /\ preferences = <<>>
        /\ structure_scores = <<>>
        /\ structure_prompt_insights = <<>>
        /\ ~has_preferences
        /\ ~has_structure_scores
        /\ ~has_structure_insights
        /\ exploration_count = 0
        /\ exploitation_count = 0

\* clear has run.
C17_Witness == returned.op = "clear" /\ ~has_preferences /\ last_updated = "ts"

\* C18 as stated: after clear the store equals a freshly constructed store
\* in every field, last_updated included.
C18_ClearEqualsConstructed == returned.op = "clear" => Current = Constructed

\* C18 amended: after clear the store equals a freshly constructed store in
\* every field but last_updated, which holds the time of the clear.
C18_ClearEqualsConstructedButStamp ==
    returned.op = "clear" =>
        /\ Current = [Constructed EXCEPT !.last_updated = last_updated]
        /\ last_updated # Constructed.last_updated

\* clear has run and the store carries its time stamp.
C18_Witness == returned.op = "clear" /\ last_updated = "ts" /\ exploration_rate = 20

\* C19: rank_structures returns as many pairs as it got ids, each id as
\* often as it was given, each with its stored score or with 0.5 when it
\* has none, in non-increasing order of score.
C19_RankStructures ==
    returned.op = "rank_structures" =>
        LET ids == returned.args
            out == returned.value
        IN /\ Len(out) = Len(ids)
           /\ \A sid \in SeqToSet(ids) :
                 Cardinality({i \in 1..Len(out) : out[i][1] = sid})
                   = Cardinality({i \in 1..Len(ids) : ids[i] = sid})
           /\ \A i \in 1..Len(out) :
                 \/ <<out[i][1], out[i][2]>> \in SeqToSet(structure_scores)
                 \/ /\ out[i][1] \notin DictKeys(structure_scores)
                    /\ out[i][2] = 50
           /\ NonIncreasing(out)

\* An id without a score was given twice, around an id with a higher stored
\* score, which the ranking moved to the front.
C19_Witness ==
    /\ returned.op = "rank_structures"
    /\ returned.args = <<"recQ", "recB", "recQ">>
    /\ returned.value = << <<"recB", 70>>, <<"recQ", 50>>, <<"recQ", 50>> >>

\* The entries of a mapping that a top-n result leaves out.
LeftOut(all, out) == SeqToSet(all) \ SeqToSet(out)

TopOf(all, n, out) ==
    /\ Len(out) = Min2(n, Len(all))
    /\ SeqToSet(out) \subseteq SeqToSet(all)
    /\ \A o \in SeqToSet(out) : \A e \in LeftOut(all, out) : o[2] >= e[2]

\* C20: attribute_weights and structure_scores are always held in
\* non-increasing order of score, and get_top_preferences(n) and
\* get_top_structures(n), for a count n >= 0, return min(n, size) entries
\* none of which scores lower than an entry left out.
C20_TopN ==
    /\ NonIncreasing(preferences)
    /\ NonIncreasing(structure_scores)
    /\ returned.op = "get_top_preferences" =>
          TopOf(preferences, returned.args, returned.value)
    /\ returned.op = "get_top_structures" =>
          TopOf(structure_scores, returned.args, returned.value)

\* The top 2 of three attribute weights that were supplied in another
\* order.
C20_Witness ==
    /\ returned.op = "get_top_preferences"
    /\ returned.args = 2
    /\ SameEntries(preferences, P1)
    /\ preferences # P1
    /\ Len(returned.value) = 2

\* C21: POST /generate-prompts answers with status 200 and a list of
\* prompts, or with status 500 and one error message.  A failed record
\* fetch gives 500 and the core is never entered; an error raised by the
\* core gives 500 with that error as the message.
C21_EndpointAnswers ==
    pc \in {"done", "fetch_error"} =>
        /\ \/ /\ EndpointResponse.status_code = 200
              /\ EndpointResponse.error = ""
              /\ EndpointResponse.prompts = result.prompts
           \/ /\ EndpointResponse.status_code = 500
              /\ EndpointResponse.error # ""
              /\ EndpointResponse.prompts = <<>>
        /\ pc = "fetch_error" =>
              /\ EndpointResponse.status_code = 500
              /\ req = NoRequest
              /\ explore_calls = 0
              /\ store_seen = {}
              /\ built_contexts = <<>>
              /\ payloads = <<>>
              /\ llm_calls = 0
        /\ result.status = "error" =>
              /\ EndpointResponse.status_code = 500
              /\ EndpointResponse.error = result.error

\* The core gave up after both attempts and the client got its error as a
\* 500.
C21_Witness ==
    /\ pc = "done"
    /\ result = Exhausted
    /\ Len(payloads) = 2
    /\ EndpointResponse.status_code = 500
    /\ EndpointResponse.error = "LLM could not return required prompt count"

\* C22: a generation request made while no preferences are loaded runs in
\* exploit mode, draws no exploration decision and leaves both counters as
\* they were, whatever the exploration rate and the stored scores are; every
\* payload it sends says explore_mode false.
C22_NoPreferencesNoDecision ==
    [][ (pc = "idle" /\ pc' \in {"llm", "done"} /\ ~has_preferences) =>
            /\ explore_mode' = FALSE
            /\ explore_calls' = 0
            /\ exploration_count' = exploration_count
            /\ exploitation_count' = exploitation_count
            /\ \A i \in 1..Len(payloads') : ~payloads'[i].explore_mode ]_vars

\* Without preferences, at rate 1.0 and with stored scores, a request was
\* served in exploit mode with no decision drawn.
C22_Witness ==
    /\ pc = "done"
    /\ result.status = "ok"
    /\ ~has_preferences
    /\ exploration_rate = 100
    /\ has_structure_scores
    /\ ~explore_mode
    /\ explore_calls = 0
    /\ exploration_count + exploitation_count = 0

\* C23: a should_explore call adds one to the exploration counter when it
\* returns true and one to the exploitation counter when it returns false,
\* and leaves the other counter alone; clear and reset_exploration_stats
\* put both at zero; no other method moves them.  So the sum of the two
\* counters is the number of calls since the last clear or reset, and
\* get_exploration_stats reports the counters and their sum.
C23_DecisionsCounted ==
    [][ /\ returned'.op = "should_explore" =>
              IF returned'.value
              THEN /\ exploration_count' = exploration_count + 1
                   /\ exploitation_count' = exploitation_count
              ELSE /\ exploitation_count' = exploitation_count + 1
                   /\ exploration_count' = exploration_count
        /\ returned'.op \in {"clear", "reset_exploration_stats"} =>
              /\ exploration_count' = 0
              /\ exploitation_count' = 0
        /\ returned'.op \notin {"should_explore", "clear", "reset_exploration_stats"} =>
              /\ exploration_count' = exploration_count
              /\ exploitation_count' = exploitation_count
        /\ returned'.op = "get_exploration_stats" =>
              /\ returned'.value.exploration_count = exploration_count
              /\ returned'.value.exploitation_count = exploitation_count
              /\ returned'.value.total_decisions
                    = exploration_count + exploitation_count ]_vars

\* After one decision to exploit the statistics report one decision.
C23_Witness ==
    /\ returned.op = "get_exploration_stats"
    /\ returned.value.total_decisions = 1
    /\ returned.value.exploitation_count = 1
    /\ exploration_count = 0

\* C24: a garment selection returns a member of the pools it was given.
\* With both pools non-empty it is a top exactly when the draw is below
\* 0.75; with no others it is a top; with no tops it is one of the others;
\* with both pools empty the call fails with "No garments available".
C24_GarmentSelection ==
    returned.op = "select_garment" =>
        LET a == returned.args
            v == returned.value
        IN IF a.tops = {} /\ a.others = {}
           THEN v.error = "No garments available"
           ELSE /\ v.error = ""
                /\ v.garment \in a.tops \cup a.others
                /\ (a.tops # {} /\ a.others # {}) =>
                      (v.garment \in a.tops <=> a.u < 75)
                /\ a.others = {} => v.garment \in a.tops
                /\ a.tops = {} => v.garment \in a.others

\* Both pools had members, the draw was exactly 0.75 and one of the others
\* came back.
C24_Witness ==
    /\ returned.op = "select_garment"
    /\ returned.args.tops # {}
    /\ returned.args.others # {}
    /\ returned.args.u = 75
    /\ returned.value.garment \in returned.args.others

IsExploratory(s) == s.age_weeks < 4 \/ s.usage_count < 10

\* C25: in explore mode the structures that can be selected are exactly the
\* candidates with age_weeks < 4 or usage_count < 10 when there is one, and
\* every candidate when there is none, whatever scores the store holds;
\* and every selection made in explore mode is one of them.
C25_ExploreSelection ==
    /\ \A l \in SelectLists :
          LET fresh == {s \in SeqToSet(l) : IsExploratory(s)}
          IN select_structure(l, TRUE) = IF fresh # {} THEN fresh ELSE SeqToSet(l)
    /\ (returned.op = "select_structure" /\ returned.args.explore) =>
          LET l == returned.args.structures
          IN /\ returned.value \in SeqToSet(l)
             /\ (\E s \in SeqToSet(l) : IsExploratory(s)) => IsExploratory(returned.value)

\* With scores stored that favour recB, an explore-mode selection among the
\* two structures that are neither new nor little used returned recC.
C25_Witness ==
    /\ returned.op = "select_structure"
    /\ returned.args.explore
    /\ has_structure_scores
    /\ Len(returned.args.structures) = 2
    /\ \A s \in SeqToSet(returned.args.structures) : ~IsExploratory(s)
    /\ returned.value.id = "recC"

\* C26: in exploit mode every candidate gets a weight above zero, on the
\* stored-score path and on the fallback path, and so every candidate can
\* be selected.
C26_EveryCandidateSelectable ==
    \A l \in SelectLists :
        LET ranked == rank_structures([i \in 1..Len(l) |-> l[i].id])
        IN /\ \A i \in 1..Len(l) : ScoreWeights(ranked)[i] > 0
           /\ \A i \in 1..Len(l) : FallbackWeights(l)[i] > 0
           /\ select_structure(l, FALSE) = SeqToSet(l)

\* With a negative score stored for recC, an exploit-mode selection among
\* several candidates returned recC.
C26_Witness ==
    /\ returned.op = "select_structure"
    /\ ~returned.args.explore
    /\ has_structure_scores
    /\ DictGet(structure_scores, "recC", DefaultScore) < 0
    /\ Len(returned.args.structures) >= 2
    /\ returned.value.id = "recC"

\* the elements of one answer that hold the five required fields and the
\* renderer of the request, in the order of the answer
ValidItems(content) ==
    IF content.kind = "prompts"
    THEN SelectSeq(content.prompts,
                   LAMBDA p : p.is_object /\ ~Skipped(p, req.renderer))
    ELSE <<>>

RECURSIVE ValidReceived(_)
ValidReceived(contents) ==
    IF contents = <<>> THEN <<>>
    ELSE ValidItems(Head(contents)) \o ValidReceived(Tail(contents))

\* C27: on the generator path a successful result is the first `target`
\* of the valid items of all answers, in order of arrival; an invalid
\* element does not keep the valid items after it in the same answer from
\* being accepted.
C27_FirstValidItems ==
    (pc = "done" /\ req.llm_client /\ result.status = "ok") =>
        result.prompts = PySlice(ValidReceived(received), req.num_prompts)

\* C28: a record fetch makes at most three requests.  It waits 1 second
\* after the first failure and 2 after the second, and not after the third;
\* it returns at the first response that succeeds, with the records of
\* that response and without another request; after three failures in a
\* row it raises the last of them, and it never returns after three.
C28_BoundedFetch ==
    /\ fetch.requests <= 3
    /\ fetch.sleeps \in {<<>>, <<1>>, <<1, 2>>}
    /\ fetch.pc = "request" =>
          /\ fetch.requests = Len(fetch.errors)
          /\ Len(fetch.sleeps) = Len(fetch.errors)
          /\ fetch.requests < 3
    /\ fetch.pc = "returned" =>
          /\ fetch.requests = Len(fetch.errors) + 1
          /\ Len(fetch.sleeps) = Len(fetch.errors)
          /\ fetch.payload.kind # "none"
          /\ fetch.payload.kind = "dict" => fetch.value = fetch.payload.records
          /\ fetch.payload.kind # "dict" => fetch.value = <<>>
    /\ (fetch.pc = "raised" /\ fetch.requests > 0) =>
          /\ fetch.requests = 3
          /\ Len(fetch.errors) = 3
          /\ fetch.sleeps = <<1, 2>>
          /\ fetch.error = fetch.errors[3]

\* Three requests failed: the fetch slept 1 and 2 seconds and raised.
C28_Witness ==
    /\ fetch.pc = "raised"
    /\ fetch.requests = 3
    /\ fetch.sleeps = <<1, 2>>
    /\ fetch.error = "ConnectionError"

\* C29: a run on the local path that makes the same decision and draws the
\* same sampling contexts as the finished one, as any run with the same
\* pools, store and random source in the same state does, returns what
\* the finished one returned.
C29_LocalReplay ==
    (pc = "done" /\ ~req.llm_client /\ result.status = "ok") =>
        generate_locally(built_contexts, req.renderer, explore_mode) = {result.prompts}

\* C30: a request that ends with an input error leaves every field of the
\* store as it was, the two counters included.
C30_InputErrorKeepsStore ==
    [][ (pc = "idle" /\ pc' = "done" /\ result'.error \in InputErrors) =>
            /\ preferences' = preferences
            /\ exploration_rate' = exploration_rate
            /\ structure_scores' = structure_scores
            /\ structure_prompt_insights' = structure_prompt_insights
            /\ last_updated' = last_updated
            /\ exploration_count' = exploration_count
            /\ exploitation_count' = exploitation_count ]_vars

====
